---- MODULE Spec2Model ----
\* Model of the Markdown Toggle Preview extension (src/src/extension.ts,
\* the persisted version, lines 89-190): the Mode Cache (viewStates), the
\* Durable Store (extCtx.globalState), the Last-Toggled Identity
\* (lastToggledUri), and the asynchronous toggle command with its awaits.
EXTENDS Integers, Sequences, FiniteSets, Bags, TLC

\* ---------------------------------------------------------------- bounds
\* Number of toggle invocations that may be in flight at the same time.
MaxInFlight == 2
\* Longest run of sequential successful toggles that is tracked.
MaxRun == 3

\* ------------------------------------------------------------ vocabulary
\* Markdown documents (document identities, uri.toString()).
Ids == {"a", "b"}
\* The identities a durable key can name: the documents above and "c", a
\* markdown file that an earlier session toggled and this one never opens.
Keys == Ids \cup {"c"}
\* A focused document that is not markdown.
OtherDocs == {"txt"}
\* vscode.window.activeTextEditor: undefined ("none") or an editor on a document.
Editors == {"none"} \cup Ids \cup OtherDocs
\* 'source' | 'preview'
Modes == {"source", "preview"}
\* A Mode or undefined.
MaybeMode == Modes \cup {"none"}
\* Values the setting markdownToggle.defaultView can hold (it is read as a string).
ConfigValues == {"source", "preview", "other"}

VARIABLES
    viewStates,      \* Mode Cache: Map<string, 'source'|'preview'>
    globalState,     \* Durable Store: markdownToggle.viewMode.<key> entries
    lastToggledUri,  \* Last-Toggled Identity
    extCtx,          \* TRUE once activate() has stored the extension context
    editor,          \* vscode.window.activeTextEditor
    defaultView,     \* setting markdownToggle.defaultView
    statusBar,       \* the status bar item created by activate()
    notice,          \* the message last shown to the user, until dismissed
    inv,             \* the suspended toggleMarkdownView() invocations (a bag)
    committed,       \* history: mode left by the last successful toggle of an identity
    run,             \* history: the current run of sequential successful toggles of an identity
    track,           \* which history a specification records (never changes)
    reconciler       \* the Stale Entry Reconciler: its run and its last return value

vars == <<viewStates, globalState, lastToggledUri, extCtx, editor, defaultView,
          statusBar, notice, inv, committed, run, track, reconciler>>

\* ---------------------------------------------------------------- helpers
\* JavaScript a || b on values that are undefined or a non-empty string.
OrElse(a, b) == IF a # "none" THEN a ELSE b

\* editor.document.languageId === 'markdown'
IsMarkdown(e) == e \in Ids

\* The other of the two modes.
Opposite(m) == IF m = "source" THEN "preview" ELSE "source"

\* A suspended invocation: the await it is at (pc), its locals docUri and
\* currentState, and three history fields: viaLast, the call found no editor
\* and took lastToggledUri; dirty, docUri was written since the invocation
\* resolved currentState; last, the Last-Toggled Identity as the call found it.
Invocation(pc, docUri, currentState, viaLast, dirty) ==
    [pc |-> pc, docUri |-> docUri, currentState |-> currentState,
     viaLast |-> viaLast, dirty |-> dirty,
     last |-> IF track.last THEN lastToggledUri ELSE "none"]

Awaits == {"showPreview", "openTextDocument", "showTextDocument"}

Invocations == [pc : Awaits, docUri : Ids, currentState : ConfigValues,
                viaLast : BOOLEAN, dirty : BOOLEAN, last : Ids \cup {"none"}]

NoRun == [m |-> "none", k |-> 0]

\* The suspended invocations.
InFlight == BagToSet(inv)

\* The suspended invocations whose target is identity id.
InFlightOn(id) == {r \in InFlight : r.docUri = id}

\* ------------------------------------------------------- state functions
\* getStoredState that never finds an entry.
getStoredStateIn_Absent(ctx, gs, key) == "none"

\* getStoredState(key), with context ctx and store gs.
getStoredStateIn(ctx, gs, key) == IF ~ctx THEN "none" ELSE gs[key]

\* getStoredState(key)
getStoredState(key) == getStoredStateIn(extCtx, globalState, key)

\* getViewState with the caller's 'source' substituted inside.
getViewState_OrSource(uri) ==
    OrElse(OrElse(viewStates[uri], getStoredState(uri)), "source")

\* getViewState falling back to the setting.
getViewState_WithDefault(uri) ==
    OrElse(OrElse(viewStates[uri], getStoredState(uri)), defaultView)

\* getViewState(uri): the exported query.
getViewState(uri) == OrElse(viewStates[uri], getStoredState(uri))

\* Resolution that skips the durable store.
ResolveIn_CacheOnly(ctx, vs, gs, key) == OrElse(vs[key], defaultView)

\* Resolution that falls back to 'source' instead of the setting.
ResolveIn_HardSource(ctx, vs, gs, key) ==
    OrElse(OrElse(vs[key], getStoredStateIn(ctx, gs, key)), "source")

\* viewStates.get(key) || getStoredState(key) || configDefault, as
\* toggleMarkdownView and updateUI compute it, with context ctx, cache vs and store gs.
ResolveIn(ctx, vs, gs, key) ==
    OrElse(OrElse(vs[key], getStoredStateIn(ctx, gs, key)), defaultView)

Resolve(key) == ResolveIn(extCtx, viewStates, globalState, key)

\* A cache that holds one mode for all documents.
storeStateCache_OneMode(key, state) == [k \in Ids |-> state]

\* storeState(key, state): the cache after the call.
storeStateCache(key, state) == [viewStates EXCEPT ![key] = state]

\* storeState saving the whole cache to the store.
storeStateStore_SavesAll(key, state) ==
    IF extCtx
    THEN [k \in Keys |-> IF k = key THEN state
                         ELSE IF k \in Ids /\ viewStates[k] # "none" THEN viewStates[k]
                         ELSE globalState[k]]
    ELSE globalState

\* storeState that forgets the durable write.
storeStateStore_CacheOnly(key, state) == globalState

\* storeState(key, state): the store after the call.
storeStateStore(key, state) ==
    IF extCtx THEN [globalState EXCEPT ![key] = state] ELSE globalState

\* storeState(key, state)
storeState(key, state) ==
    /\ viewStates' = storeStateCache(key, state)
    /\ globalState' = storeStateStore(key, state)

\* The state a caller of getViewState shows when it substitutes 'source'.
OrSource(state) == OrElse(state, "source")

\* The status bar label and tooltip updateUI derives from a resolved state.
Label(state) ==
    [visible |-> TRUE,
     text |-> IF state = "source" THEN "$(eye) Preview" ELSE "$(code) Source",
     tooltip |-> IF state = "source" THEN "Switch to Markdown Preview"
                                     ELSE "Switch to Source"]

\* updateUI(editor, statusBar?): the status bar item after the call, with
\* context ctx, cache vs and store gs; hasBar is FALSE when no statusBar
\* argument is passed.
updateUI(ed, hasBar, ctx, vs, gs) ==
    IF ~IsMarkdown(ed)
    THEN IF hasBar THEN [statusBar EXCEPT !.visible = FALSE] ELSE statusBar
    ELSE IF hasBar THEN Label(ResolveIn(ctx, vs, gs, ed)) ELSE statusBar

\* The Last-Toggled fallback taken whenever no markdown document is focused.
Target_LastUnlessMarkdown ==
    IF IsMarkdown(editor) THEN editor ELSE lastToggledUri

\* The target without the Last-Toggled fallback.
Target_FocusedOnly == IF IsMarkdown(editor) THEN editor ELSE "none"

\* The target of a toggle: the focused markdown document, else the
\* Last-Toggled Identity when nothing is focused, else undefined.
Target ==
    IF IsMarkdown(editor) THEN editor
    ELSE IF editor = "none" /\ lastToggledUri # "none" THEN lastToggledUri
    ELSE "none"

\* Another invocation can be started (bound on the suspended invocations).
CanStart == BagCardinality(inv) < MaxInFlight

\* History: the run of sequential toggles of id as a new call finds it.
RunAtCall(id, cur) ==
    IF ~track.run THEN run[id]
    ELSE IF InFlightOn(id) # {} THEN NoRun
    ELSE IF run[id].m # "none" /\ run[id].k < MaxRun THEN run[id]
    ELSE IF cur \in Modes THEN [m |-> cur, k |-> 0]
    ELSE NoRun

\* History: the run of id after a successful toggle of it.
RunAtSuccess(id) ==
    IF run[id].m # "none" THEN [run[id] EXCEPT !.k = @ + 1] ELSE NoRun

\* Number of copies of x in bag B.
Copies(B, x) == IF x \in DOMAIN B THEN B[x] ELSE 0

\* The suspended invocations after invocation r has returned.
InvAfterReturn(r) == inv (-) SetToBag({r})

\* The suspended invocations after invocation r has written its docUri and
\* returned: the others on that identity are marked dirty.
InvAfterWrite(r) ==
    LET rest == InvAfterReturn(r)
        mark(x) == IF track.dirty /\ x.docUri = r.docUri
                   THEN [x EXCEPT !.dirty = TRUE] ELSE x
    IN [y \in {mark(x) : x \in BagToSet(rest)} |->
           IF track.dirty /\ y.docUri = r.docUri
           THEN Copies(rest, y) + Copies(rest, [y EXCEPT !.dirty = FALSE])
           ELSE rest[y]]

\* The keys S where the runs of the Reconciler are recorded, none elsewhere.
Audit(S) == IF track.audit THEN S ELSE {}

\* The Reconciler at rest before any run of this process, its count n.
Rested(n) == [running |-> FALSE, pending |-> {}, removed |-> n,
              listed |-> {}, deleted |-> {}]

\* cleanup() step 1: the durable keys of the extension's namespace, with the
\* prefix stripped.
StoredKeys == {k \in Keys : globalState[k] # "none"}

\* The Reconciler as cleanup() leaves its first step: a run over the listed
\* keys, or the return of 0 when there is none.
Listed == IF StoredKeys = {} THEN Rested(0)
          ELSE [running |-> TRUE, pending |-> StoredKeys, removed |-> 0,
                listed |-> Audit(StoredKeys), deleted |-> {}]

\* ------------------------------------------------------------------ Init
\* The module state as the module has been loaded; activate() has not run
\* yet.
LoadedModule ==
    /\ viewStates = [i \in Ids |-> "none"]
    /\ lastToggledUri = "none"
    /\ extCtx = FALSE
    /\ editor \in Editors
    /\ defaultView \in ConfigValues
    /\ statusBar = [visible |-> FALSE, text |-> "", tooltip |-> ""]
    /\ notice = "none"
    /\ inv = EmptyBag
    /\ committed = [i \in Ids |-> "none"]
    /\ run = [i \in Ids |-> NoRun]
    /\ reconciler = Rested(0)

\* The module has been loaded in a profile whose Durable Store is empty.
Loaded ==
    /\ LoadedModule
    /\ globalState = [k \in Keys |-> "none"]

\* No history but committed is recorded.
Init == Loaded /\ track = [run |-> FALSE, via |-> FALSE, dirty |-> FALSE,
                           reconcile |-> FALSE,
                           last |-> FALSE, audit |-> FALSE]

\* The runs of sequential toggles are recorded.
InitRuns == Loaded /\ track = [run |-> TRUE, via |-> FALSE, dirty |-> FALSE,
                               reconcile |-> FALSE,
                           last |-> FALSE, audit |-> FALSE]

\* The viaLast field of the invocations is recorded.
InitVia == Loaded /\ track = [run |-> FALSE, via |-> TRUE, dirty |-> FALSE,
                              reconcile |-> FALSE,
                           last |-> FALSE, audit |-> FALSE]

\* The viaLast and last fields of the invocations are recorded; the setting
\* is left at its default.
InitLast ==
    /\ Loaded
    /\ defaultView = "source"
    /\ track = [run |-> FALSE, via |-> TRUE, dirty |-> FALSE, reconcile |-> FALSE,
                last |-> TRUE, audit |-> FALSE]

\* The dirty field of the invocations is recorded.
InitCalls == Loaded /\ track = [run |-> FALSE, via |-> FALSE, dirty |-> TRUE,
                                reconcile |-> FALSE,
                           last |-> FALSE, audit |-> FALSE]

\* --------------------------------------------------------------- actions
\* activate(context)
activate ==
    /\ ~extCtx
    /\ extCtx' = TRUE
    /\ statusBar' = updateUI(editor, TRUE, TRUE, viewStates, globalState)
    /\ reconciler' = IF track.reconcile THEN Listed ELSE reconciler
    /\ UNCHANGED <<viewStates, globalState, lastToggledUri, editor, defaultView,
                   notice, inv, committed, run, track>>

\* onDidChangeActiveTextEditor: the focus moves (by the user or by a host
\* action) and the listener registered by activate() runs updateUI(editor, statusBar).
onDidChangeActiveTextEditor ==
    /\ extCtx
    /\ \E e \in Editors \ {editor} :
        /\ editor' = e
        /\ statusBar' = updateUI(e, TRUE, extCtx, viewStates, globalState)
    /\ UNCHANGED <<viewStates, globalState, lastToggledUri, extCtx, defaultView,
                   notice, inv, committed, run, track, reconciler>>

\* The user edits the setting markdownToggle.defaultView.
changeConfiguration ==
    /\ \E d \in ConfigValues \ {defaultView} : defaultView' = d
    /\ UNCHANGED <<viewStates, globalState, lastToggledUri, extCtx, editor,
                   statusBar, notice, inv, committed, run, track, reconciler>>

\* The user dismisses the message on screen.
dismissNotice ==
    /\ notice # "none"
    /\ notice' = "none"
    /\ UNCHANGED <<viewStates, globalState, lastToggledUri, extCtx, editor,
                   defaultView, statusBar, inv, committed, run, track, reconciler>>

\* toggleMarkdownView() reporting the missing target as an error.
toggleNoTarget_AsError ==
    /\ extCtx
    /\ Target = "none"
    /\ notice' = "error"
    /\ UNCHANGED <<viewStates, globalState, lastToggledUri, extCtx, editor,
                   defaultView, statusBar, inv, committed, run, track, reconciler>>

\* toggleMarkdownView(), no target: the warning is shown and the call returns.
toggleNoTarget ==
    /\ extCtx
    /\ Target = "none"
    /\ notice' = "warning"
    /\ UNCHANGED <<viewStates, globalState, lastToggledUri, extCtx, editor,
                   defaultView, statusBar, inv, committed, run, track, reconciler>>

\* The branch chosen by a test for 'preview' instead of 'source'.
FirstAwait_TestsPreview(currentState) ==
    IF currentState = "preview" THEN "openTextDocument" ELSE "showPreview"

\* The host action toggleMarkdownView starts from a resolved current state.
FirstAwait(currentState) ==
    IF currentState = "source" THEN "showPreview" ELSE "openTextDocument"

\* toggleMarkdownView() recording its target as last toggled before the await.
toggleStart_RecordsTarget ==
    /\ extCtx
    /\ CanStart
    /\ Target # "none"
    /\ LET docUri == Target
           currentState == Resolve(docUri)
       IN /\ inv' = inv (+) SetToBag({Invocation(FirstAwait(currentState), docUri,
                                                 currentState,
                                                 track.via /\ editor = "none", FALSE)})
          /\ run' = [run EXCEPT ![docUri] = RunAtCall(docUri, currentState)]
          /\ lastToggledUri' = docUri
    /\ UNCHANGED <<viewStates, globalState, extCtx, editor,
                   defaultView, statusBar, notice, committed, track, reconciler>>

\* toggleMarkdownView() keeping the state it resolved in the cache.
toggleStart_CachesResolved ==
    /\ extCtx
    /\ CanStart
    /\ Target # "none"
    /\ LET docUri == Target
           currentState == Resolve(docUri)
       IN /\ inv' = inv (+) SetToBag({Invocation(FirstAwait(currentState), docUri,
                                                 currentState,
                                                 track.via /\ editor = "none", FALSE)})
          /\ run' = [run EXCEPT ![docUri] = RunAtCall(docUri, currentState)]
          /\ viewStates' = [viewStates EXCEPT ![docUri] = currentState]
    /\ UNCHANGED <<globalState, lastToggledUri, extCtx, editor,
                   defaultView, statusBar, notice, committed, track, reconciler>>

\* toggleMarkdownView() writing the next state to the cache before the await.
toggleStart_EagerWrite ==
    /\ extCtx
    /\ CanStart
    /\ Target # "none"
    /\ LET docUri == Target
           currentState == Resolve(docUri)
       IN /\ inv' = inv (+) SetToBag({Invocation(FirstAwait(currentState), docUri,
                                                 currentState,
                                                 track.via /\ editor = "none", FALSE)})
          /\ run' = [run EXCEPT ![docUri] = RunAtCall(docUri, currentState)]
          /\ viewStates' = [viewStates EXCEPT ![docUri] =
                                IF currentState = "source" THEN "preview" ELSE "source"]
    /\ UNCHANGED <<globalState, lastToggledUri, extCtx, editor,
                   defaultView, statusBar, notice, committed, track, reconciler>>

\* toggleMarkdownView(), with a target: resolves the current state, starts
\* the host action for it and suspends at the first await.
toggleStart ==
    /\ extCtx
    /\ CanStart
    /\ Target # "none"
    /\ LET docUri == Target
           currentState == Resolve(docUri)
       IN /\ inv' = inv (+) SetToBag({Invocation(FirstAwait(currentState), docUri,
                                                 currentState,
                                                 track.via /\ editor = "none", FALSE)})
          /\ run' = [run EXCEPT ![docUri] = RunAtCall(docUri, currentState)]
    /\ UNCHANGED <<viewStates, globalState, lastToggledUri, extCtx, editor,
                   defaultView, statusBar, notice, committed, track, reconciler>>

\* toggleMarkdownView() resumes after its last await resolved: storeState,
\* lastToggledUri, updateUI without a status bar argument, return.
toggleStore(r, next) ==
    LET key == r.docUri
    IN /\ storeState(key, next)
       /\ lastToggledUri' = key
       /\ statusBar' = updateUI(editor, FALSE, extCtx, viewStates', globalState')
       /\ inv' = InvAfterWrite(r)
       /\ committed' = [committed EXCEPT ![key] = next]
       /\ run' = [run EXCEPT ![key] = RunAtSuccess(key)]
       /\ UNCHANGED <<extCtx, editor, defaultView, notice, track, reconciler>>

\* The durable write awaited inside the try block: its rejection lands in
\* the catch block, after the cache write and before lastToggledUri is set.
toggleStoreRejected_Caught(r, next) ==
    LET key == r.docUri
    IN /\ viewStates' = storeStateCache(key, next)
       /\ notice' = "error"
       /\ statusBar' = updateUI(editor, FALSE, extCtx, viewStates', globalState)
       /\ inv' = InvAfterWrite(r)
       /\ committed' = [committed EXCEPT ![key] = next]
       /\ run' = [run EXCEPT ![key] = RunAtSuccess(key)]
       /\ UNCHANGED <<globalState, lastToggledUri, extCtx, editor, defaultView,
                      track, reconciler>>

\* toggleMarkdownView() resumes after its last await resolved, and the
\* promise of globalState.update, which storeState does not await, rejects:
\* the cache is written, the store is not, lastToggledUri is set, and the
\* rejection reaches neither the catch block nor the user.
toggleStoreRejected(r, next) ==
    LET key == r.docUri
    IN /\ viewStates' = storeStateCache(key, next)
       /\ lastToggledUri' = key
       /\ statusBar' = updateUI(editor, FALSE, extCtx, viewStates', globalState)
       /\ inv' = InvAfterWrite(r)
       /\ committed' = [committed EXCEPT ![key] = next]
       /\ run' = [run EXCEPT ![key] = RunAtSuccess(key)]
       /\ UNCHANGED <<globalState, extCtx, editor, defaultView, notice,
                      track, reconciler>>

\* A catch block that rolls the target back to having no entry.
toggleCatch_RollsBack(r) ==
    /\ notice' = "error"
    /\ viewStates' = [viewStates EXCEPT ![r.docUri] = "none"]
    /\ globalState' = [globalState EXCEPT ![r.docUri] = "none"]
    /\ statusBar' = updateUI(editor, FALSE, extCtx, viewStates', globalState')
    /\ inv' = InvAfterReturn(r)
    /\ run' = [run EXCEPT ![r.docUri] = NoRun]
    /\ UNCHANGED <<lastToggledUri, extCtx, editor,
                   defaultView, committed, track, reconciler>>

\* A catch block that records the target as last toggled.
toggleCatch_RecordsTarget(r) ==
    /\ notice' = "error"
    /\ statusBar' = updateUI(editor, FALSE, extCtx, viewStates, globalState)
    /\ inv' = InvAfterReturn(r)
    /\ run' = [run EXCEPT ![r.docUri] = NoRun]
    /\ lastToggledUri' = r.docUri
    /\ UNCHANGED <<viewStates, globalState, extCtx, editor, defaultView, committed, track, reconciler>>

\* toggleMarkdownView() resumes in its catch block: showErrorMessage,
\* updateUI without a status bar argument, return.
toggleCatch(r) ==
    /\ notice' = "error"
    /\ statusBar' = updateUI(editor, FALSE, extCtx, viewStates, globalState)
    /\ inv' = InvAfterReturn(r)
    /\ run' = [run EXCEPT ![r.docUri] = NoRun]
    /\ UNCHANGED <<viewStates, globalState, lastToggledUri, extCtx, editor,
                   defaultView, committed, track, reconciler>>

\* markdown.showPreview resolved.
showPreviewResolved(r) ==
    /\ r.pc = "showPreview"
    /\ toggleStore(r, "preview")

\* markdown.showPreview rejected.
showPreviewRejected(r) ==
    /\ r.pc = "showPreview"
    /\ toggleCatch(r)

\* The source branch storing its state between its two awaits.
openTextDocumentResolved_StoresEarly(r) ==
    /\ r.pc = "openTextDocument"
    /\ storeState(r.docUri, "source")
    /\ inv' = InvAfterReturn(r) (+) SetToBag({[r EXCEPT !.pc = "showTextDocument"]})
    /\ UNCHANGED <<lastToggledUri, extCtx, editor,
                   defaultView, statusBar, notice, committed, run, track, reconciler>>

\* workspace.openTextDocument resolved; window.showTextDocument is started.
openTextDocumentResolved(r) ==
    /\ r.pc = "openTextDocument"
    /\ inv' = InvAfterReturn(r) (+) SetToBag({[r EXCEPT !.pc = "showTextDocument"]})
    /\ UNCHANGED <<viewStates, globalState, lastToggledUri, extCtx, editor,
                   defaultView, statusBar, notice, committed, run, track, reconciler>>

\* workspace.openTextDocument rejected.
openTextDocumentRejected(r) ==
    /\ r.pc = "openTextDocument"
    /\ toggleCatch(r)

\* The source branch storing the state of the preview branch.
showTextDocumentResolved_StoresPreview(r) ==
    /\ r.pc = "showTextDocument"
    /\ toggleStore(r, "preview")

\* window.showTextDocument resolved.
showTextDocumentResolved(r) ==
    /\ r.pc = "showTextDocument"
    /\ toggleStore(r, "source")

\* window.showTextDocument rejected.
showTextDocumentRejected(r) ==
    /\ r.pc = "showTextDocument"
    /\ toggleCatch(r)

\* A reload that restores the Last-Toggled Identity.
restart_KeepsLastToggled ==
    /\ extCtx
    /\ viewStates' = [i \in Ids |-> "none"]
    /\ extCtx' = FALSE
    /\ statusBar' = [visible |-> FALSE, text |-> "", tooltip |-> ""]
    /\ notice' = "none"
    /\ inv' = EmptyBag
    /\ run' = [i \in Ids |-> NoRun]
    /\ reconciler' = Rested(0)
    /\ UNCHANGED <<globalState, lastToggledUri, editor, defaultView, committed, track>>

\* markdown.showPreview resolved; the durable write is rejected.
showPreviewResolvedWriteRejected(r) ==
    /\ r.pc = "showPreview"
    /\ toggleStoreRejected(r, "preview")

\* window.showTextDocument resolved; the durable write is rejected.
showTextDocumentResolvedWriteRejected(r) ==
    /\ r.pc = "showTextDocument"
    /\ toggleStoreRejected(r, "source")

\* The window is reloaded: the module state is lost, the durable store is kept.
restart ==
    /\ extCtx
    /\ viewStates' = [i \in Ids |-> "none"]
    /\ lastToggledUri' = "none"
    /\ extCtx' = FALSE
    /\ statusBar' = [visible |-> FALSE, text |-> "", tooltip |-> ""]
    /\ notice' = "none"
    /\ inv' = EmptyBag
    /\ run' = [i \in Ids |-> NoRun]
    /\ reconciler' = Rested(0)
    /\ UNCHANGED <<globalState, editor, defaultView, committed, track>>

Next ==
    \/ activate
    \/ onDidChangeActiveTextEditor
    \/ changeConfiguration
    \/ dismissNotice
    \/ toggleNoTarget
    \/ toggleStart
    \/ \E r \in InFlight : showPreviewResolved(r)
    \/ \E r \in InFlight : showPreviewRejected(r)
    \/ \E r \in InFlight : openTextDocumentResolved(r)
    \/ \E r \in InFlight : openTextDocumentRejected(r)
    \/ \E r \in InFlight : showTextDocumentResolved(r)
    \/ \E r \in InFlight : showTextDocumentRejected(r)
    \/ restart

\* The process with the Stale Entry Reconciler: activate() starts a run of
\* it. The setting keeps the value it has at the start.
InitReconciling ==
    Loaded /\ track = [run |-> FALSE, via |-> FALSE, dirty |-> FALSE, reconcile |-> TRUE,
                           last |-> FALSE, audit |-> FALSE]

\* The process with the Stale Entry Reconciler in a profile where an earlier
\* session may have left an entry for the file "c"; the runs of the
\* Reconciler are recorded and the setting is left at its default.
InitCleanup ==
    /\ LoadedModule
    /\ \E m \in MaybeMode :
           globalState = [k \in Keys |-> IF k = "c" THEN m ELSE "none"]
    /\ defaultView = "source"
    /\ track = [run |-> FALSE, via |-> FALSE, dirty |-> FALSE, reconcile |-> TRUE,
                last |-> FALSE, audit |-> TRUE]

\* The scheme of an identity: "a" and "c" are files on disk, "b" is an
\* unsaved document.
Scheme(id) == IF id = "b" THEN "untitled" ELSE "file"

\* f without an entry for id.
Without(f, id) == IF id \in DOMAIN f THEN [f EXCEPT ![id] = "none"] ELSE f

\* cleanup() is called by the user while no run is under way.
cleanupCalled ==
    /\ extCtx
    /\ ~reconciler.running
    /\ reconciler' = Listed
    /\ UNCHANGED <<viewStates, globalState, lastToggledUri, extCtx, editor,
                   defaultView, statusBar, notice, inv, committed, run, track>>

\* The Reconciler after key id has been examined and n entries were removed
\* for it: the run goes on, or returns its count after the last key.
Examined(id, n) ==
    LET rest == reconciler.pending \ {id}
        gone == IF n = 1 THEN Audit({id}) ELSE {}
    IN [reconciler EXCEPT !.running = (rest # {}), !.pending = rest,
                          !.removed = @ + n, !.deleted = @ \cup gone]

\* cleanup() probing every identity, whatever its scheme.
cleanupExamines_ProbesAll(id, exists) ==
    /\ reconciler.running
    /\ id \in reconciler.pending
    /\ IF ~exists
       THEN /\ globalState' = [globalState EXCEPT ![id] = "none"]
            /\ viewStates' = Without(viewStates, id)
            /\ committed' = Without(committed, id)
            /\ reconciler' = Examined(id, 1)
       ELSE /\ reconciler' = Examined(id, 0)
            /\ UNCHANGED <<globalState, viewStates, committed>>
    /\ UNCHANGED <<lastToggledUri, extCtx, editor, defaultView, statusBar,
                   notice, inv, run, track>>

\* cleanup() deleting the durable entry of a file that is gone but leaving
\* its cache entry.
cleanupExamines_KeepsCache(id, exists) ==
    /\ reconciler.running
    /\ id \in reconciler.pending
    /\ IF Scheme(id) = "file" /\ ~exists
       THEN /\ globalState' = [globalState EXCEPT ![id] = "none"]
            /\ committed' = Without(committed, id)
            /\ reconciler' = Examined(id, 1)
            /\ UNCHANGED viewStates
       ELSE /\ reconciler' = Examined(id, 0)
            /\ UNCHANGED <<globalState, viewStates, committed>>
    /\ UNCHANGED <<lastToggledUri, extCtx, editor, defaultView, statusBar,
                   notice, inv, run, track>>

\* cleanup() steps 3 and 4 for key id, the existence probe answering exists:
\* the entry of a file that is gone is deleted from store and cache and
\* counted; any other entry is left alone.
cleanupExamines(id, exists) ==
    /\ reconciler.running
    /\ id \in reconciler.pending
    /\ IF Scheme(id) = "file" /\ ~exists
       THEN /\ globalState' = [globalState EXCEPT ![id] = "none"]
            /\ viewStates' = Without(viewStates, id)
            /\ committed' = Without(committed, id)
            /\ reconciler' = Examined(id, 1)
       ELSE /\ reconciler' = Examined(id, 0)
            /\ UNCHANGED <<globalState, viewStates, committed>>
    /\ UNCHANGED <<lastToggledUri, extCtx, editor, defaultView, statusBar,
                   notice, inv, run, track>>

NextReconciling ==
    \/ activate
    \/ onDidChangeActiveTextEditor
    \/ dismissNotice
    \/ toggleNoTarget
    \/ toggleStart
    \/ \E r \in InFlight : showPreviewResolved(r)
    \/ \E r \in InFlight : showPreviewRejected(r)
    \/ \E r \in InFlight : openTextDocumentResolved(r)
    \/ \E r \in InFlight : openTextDocumentRejected(r)
    \/ \E r \in InFlight : showTextDocumentResolved(r)
    \/ \E r \in InFlight : showTextDocumentRejected(r)
    \/ restart
    \/ cleanupCalled
    \/ \E id \in Keys, exists \in BOOLEAN : cleanupExamines(id, exists)

\* The process with a Durable Store that may reject a write; the setting
\* keeps the value it has at the start.
InitFaulty ==
    /\ Loaded
    /\ track = [run |-> FALSE, via |-> FALSE, dirty |-> FALSE, reconcile |-> FALSE,
                           last |-> FALSE, audit |-> FALSE]

\* The steps of the process while the setting is left alone and no message
\* is dismissed.
NextSettled ==
    \/ activate
    \/ onDidChangeActiveTextEditor
    \/ toggleNoTarget
    \/ toggleStart
    \/ \E r \in InFlight : showPreviewResolved(r)
    \/ \E r \in InFlight : showPreviewRejected(r)
    \/ \E r \in InFlight : openTextDocumentResolved(r)
    \/ \E r \in InFlight : openTextDocumentRejected(r)
    \/ \E r \in InFlight : showTextDocumentResolved(r)
    \/ \E r \in InFlight : showTextDocumentRejected(r)
    \/ restart

\* The steps of the process with the Reconciler while the setting is left
\* alone, every toggle has a target and the host performs every view action
\* asked of it; a failed toggle writes neither the cache nor the store.
NextCleanup ==
    \/ activate
    \/ onDidChangeActiveTextEditor
    \/ toggleStart
    \/ \E r \in InFlight : showPreviewResolved(r)
    \/ \E r \in InFlight : openTextDocumentResolved(r)
    \/ \E r \in InFlight : showTextDocumentResolved(r)
    \/ restart
    \/ cleanupCalled
    \/ \E id \in Keys, exists \in BOOLEAN : cleanupExamines(id, exists)

NextFaulty ==
    \/ NextSettled
    \/ \E r \in InFlight : showPreviewResolvedWriteRejected(r)
    \/ \E r \in InFlight : showTextDocumentResolvedWriteRejected(r)

\* The host settles the promise an invocation awaits.
HostSettles ==
    \E r \in InFlight :
        \/ showPreviewResolved(r) \/ showPreviewRejected(r)
        \/ openTextDocumentResolved(r) \/ openTextDocumentRejected(r)
        \/ showTextDocumentResolved(r) \/ showTextDocumentRejected(r)
        \/ showPreviewResolvedWriteRejected(r)
        \/ showTextDocumentResolvedWriteRejected(r)

Spec == Init /\ [][Next]_vars

\* Every awaited host action settles; the user's calls are not fair.
SpecFaulty == InitFaulty /\ [][NextFaulty]_vars /\ WF_vars(HostSettles)

SpecReconciling == InitReconciling /\ [][NextReconciling]_vars

SpecCleanup == InitCleanup /\ [][NextCleanup]_vars

SpecRuns == InitRuns /\ [][Next]_vars

SpecVia == InitVia /\ [][Next]_vars

SpecCalls == InitCalls /\ [][Next]_vars

SpecLast == InitLast /\ [][NextSettled]_vars

\* Well-formedness of the state.
TypeOK ==
    /\ viewStates \in [Ids -> MaybeMode]
    /\ globalState \in [Keys -> MaybeMode]
    /\ lastToggledUri \in Ids \cup {"none"}
    /\ extCtx \in BOOLEAN
    /\ editor \in Editors
    /\ defaultView \in ConfigValues
    /\ notice \in {"none", "warning", "error"}
    /\ IsABag(inv) /\ InFlight \subseteq Invocations
    /\ BagCardinality(inv) <= MaxInFlight
    /\ track \in [run : BOOLEAN, via : BOOLEAN, dirty : BOOLEAN, reconcile : BOOLEAN,
                  last : BOOLEAN, audit : BOOLEAN]
    /\ reconciler \in [running : BOOLEAN, pending : SUBSET Keys, removed : Nat,
                       listed : SUBSET Keys, deleted : SUBSET Keys]

\* ---------------------------------------------------------------- steps
\* A toggle call is made in this step.
ToggleCalled == toggleNoTarget \/ toggleStart

\* Invocation r resumes after its last await resolved and stores the next mode.
Succeeds(r) == showPreviewResolved(r) \/ showTextDocumentResolved(r)

\* Invocation r resumes in its catch block.
Fails(r) == \/ showPreviewRejected(r)
            \/ openTextDocumentRejected(r)
            \/ showTextDocumentRejected(r)

HasEntry(id) == viewStates[id] # "none" \/ globalState[id] # "none"

\* ---------------------------------------------------------------- claims
\* C1: after k sequential successful toggles of one identity that started
\* from resolved mode m (each invoked after the previous one returned), the
\* resolved mode and the view-state query are m when k is even and the other
\* mode when k is odd.
SequentialTogglesAlternate ==
    \A id \in Ids :
        (run[id].m # "none" /\ InFlightOn(id) = {}) =>
            LET expected == IF run[id].k % 2 = 0 THEN run[id].m
                                                 ELSE Opposite(run[id].m)
            IN /\ run[id].k >= 1
               /\ Resolve(id) = expected
               /\ getViewState(id) = expected

\* Two sequential successful toggles from source have returned, and the
\* identity is back at source.
SequentialTogglesAlternateWitness ==
    \E id \in Ids :
        /\ track.run
        /\ run[id] = [m |-> "source", k |-> 2]
        /\ InFlightOn(id) = {}
        /\ viewStates[id] = "source"

\* C2: a toggle call whose target has no cache entry and no store entry
\* takes the Configured Default as the current state (default source starts
\* show-preview, default preview starts show-source), and a toggle that
\* succeeds leaves the resolved mode of its target at the mode opposite to
\* the current state it started from.
FirstToggleMovesOffDefault ==
    [][ /\ (ToggleCalled /\ Target # "none" /\ ~HasEntry(Target)) =>
            \E r \in Invocations :
                /\ inv' = inv (+) SetToBag({r})
                /\ r.docUri = Target
                /\ r.currentState = defaultView
                /\ (defaultView = "source" => r.pc = "showPreview")
                /\ (defaultView = "preview" => r.pc = "openTextDocument")
        /\ \A r \in InFlight :
            (Succeeds(r) /\ r.currentState \in Modes) =>
                /\ Resolve(r.docUri)' = Opposite(r.currentState)
                /\ getViewState(r.docUri)' = Opposite(r.currentState)
      ]_vars

\* With default preview, a toggle of an identity without entries is showing
\* the source.
FirstToggleMovesOffDefaultWitness ==
    \E r \in InFlight :
        /\ ~HasEntry(r.docUri)
        /\ defaultView = "preview"
        /\ r.currentState = "preview"
        /\ r.pc \in {"openTextDocument", "showTextDocument"}

\* C3: an identity that has a cache entry (cache entries are written by
\* successful toggles only) has the same value in the store; in particular
\* cache and store agree wherever both hold an entry.
CacheStoreAgree ==
    \A id \in Ids :
        viewStates[id] # "none" =>
            /\ extCtx
            /\ getStoredState(id) = viewStates[id]
            /\ globalState[id] = viewStates[id]

\* A successful toggle has written preview for the last-toggled identity.
CacheStoreAgreeWitness ==
    \E id \in Ids :
        /\ lastToggledUri = id
        /\ viewStates[id] = "preview"
        /\ globalState[id] = "preview"

\* C4: when the host action of a toggle rejects, the error message is shown
\* and cache, store and Last-Toggled Identity are left unchanged, so the
\* resolved mode of the target is unchanged.
HostFailureChangesNothing ==
    [][ \A r \in InFlight :
            Fails(r) =>
                /\ notice' = "error"
                /\ UNCHANGED <<viewStates, globalState, lastToggledUri>>
                /\ Resolve(r.docUri)' = Resolve(r.docUri)
                /\ inv' = InvAfterReturn(r)
      ]_vars

\* A toggle of an identity has failed: the error is on screen, nothing is
\* in flight, nothing has been written and no identity is last toggled.
HostFailureChangesNothingWitness ==
    /\ notice = "error"
    /\ inv = EmptyBag
    /\ lastToggledUri = "none"
    /\ \A id \in Ids : ~HasEntry(id)

\* C5: a toggle call with no focused document and no Last-Toggled Identity
\* shows the warning, starts no host action and leaves cache, store and
\* Last-Toggled Identity unchanged.
NoTargetWarns ==
    [][ (ToggleCalled /\ editor = "none" /\ lastToggledUri = "none") =>
            /\ notice' = "warning"
            /\ inv' = inv
            /\ UNCHANGED <<viewStates, globalState, lastToggledUri>>
      ]_vars

\* The warning is on screen with nothing focused and nothing last toggled.
NoTargetWarnsWitness ==
    /\ extCtx
    /\ notice = "warning"
    /\ editor = "none"
    /\ lastToggledUri = "none"
    /\ inv = EmptyBag

\* C6: a toggle call with no focused document and a Last-Toggled Identity
\* targets that identity: it resolves its mode and starts the host action
\* for it; and a toggle that succeeds writes the new mode under its target
\* and under no other identity.
LastToggledIsFallback ==
    [][ /\ (ToggleCalled /\ editor = "none" /\ lastToggledUri # "none") =>
            inv' = inv (+) SetToBag({Invocation(
                        IF Resolve(lastToggledUri) = "source" THEN "showPreview"
                                                              ELSE "openTextDocument",
                        lastToggledUri, Resolve(lastToggledUri), track.via, FALSE)})
        /\ \A r \in InFlight :
            Succeeds(r) =>
                /\ viewStates'[r.docUri] = IF r.pc = "showPreview" THEN "preview"
                                                                   ELSE "source"
                /\ globalState'[r.docUri] = viewStates'[r.docUri]
                /\ \A id \in Ids \ {r.docUri} :
                    /\ viewStates'[id] = viewStates[id]
                    /\ globalState'[id] = globalState[id]
      ]_vars

\* A document was toggled to preview and, with no editor focused, a toggle
\* called without an editor is bringing it back to source.
LastToggledIsFallbackWitness ==
    \E r \in InFlight :
        /\ editor = "none"
        /\ r.viaLast
        /\ r.docUri = lastToggledUri
        /\ viewStates[r.docUri] = "preview"
        /\ r.currentState = "preview"
        /\ r.pc = "showTextDocument"

\* C7: while the extension is active, the view-state query and the
\* resolution toggle starts from return the mode the last successful toggle
\* of the identity left, across window reloads and whatever the Configured
\* Default is.
ViewStatePersists ==
    extCtx =>
        \A id \in Ids :
            committed[id] # "none" =>
                /\ getViewState(id) = committed[id]
                /\ Resolve(id) = committed[id]

\* After a reload (empty cache) an identity left in preview is being
\* toggled from preview although the default is source.
ViewStatePersistsWitness ==
    \E r \in InFlight :
        /\ viewStates[r.docUri] = "none"
        /\ committed[r.docUri] = "preview"
        /\ defaultView = "source"
        /\ r.currentState = "preview"
        /\ r.pc = "showTextDocument"

\* A step of the active extension in which no toggle is called and none
\* returns: the setting changes, the focus moves, a message is dismissed, or
\* a toggle in flight moves from one await to the next.
NoToggleStep ==
    /\ extCtx
    /\ \/ changeConfiguration
       \/ onDidChangeActiveTextEditor
       \/ dismissNotice
       \/ \E r \in InFlight : openTextDocumentResolved(r)

\* C8: the view-state query of an identity returns the same value before
\* and after any step in which no toggle is called and none returns,
\* including a change of the Configured Default and the progress of a toggle
\* that stays in flight.
QueryStableWithoutToggle ==
    [][ NoToggleStep => \A id \in Ids : getViewState(id)' = getViewState(id) ]_vars

\* The default has changed under a toggle in flight on an identity without
\* entries, whose query is still absent.
QueryStableWithoutToggleWitness ==
    \E r \in InFlight :
        /\ ~HasEntry(r.docUri)
        /\ r.currentState = "source"
        /\ defaultView = "preview"
        /\ getViewState(r.docUri) = "none"

\* C9 as claimed: the query returns the Configured Default for an identity
\* without cache and store entry, never an absent value.
QueryReturnsDefault ==
    extCtx =>
        \A id \in Ids :
            /\ getViewState(id) # "none"
            /\ ~HasEntry(id) => getViewState(id) = defaultView

\* C9 as amended: the query returns the cache entry, else the store entry,
\* else an absent value whatever the Configured Default is; it returns a
\* Mode exactly for the identities that have an entry, and the caller
\* substitutes 'source' for the absent value.
QueryAbsentWithoutEntry ==
    extCtx =>
        \A id \in Ids :
            /\ HasEntry(id) => getViewState(id) \in Modes
            /\ ~HasEntry(id) => /\ getViewState(id) = "none"
                                /\ OrSource(getViewState(id)) = "source"
            /\ getViewState(id) \in Modes => HasEntry(id)

\* The default is preview, an identity has no entry, and another one has.
QueryAbsentWithoutEntryWitness ==
    /\ extCtx
    /\ defaultView = "preview"
    /\ ~HasEntry("a") /\ getViewState("a") = "none"
    /\ HasEntry("b") /\ getViewState("b") = "preview"

\* A toggle is called on the target of invocation r, which is still
\* awaiting its host action and whose target no toggle has written since r
\* resolved its current state.
SecondToggleDuring(r) ==
    /\ track.dirty
    /\ toggleStart
    /\ r.docUri = Target
    /\ ~r.dirty

\* The invocation that a toggle called now starts.
Started ==
    Invocation(FirstAwait(Resolve(Target)), Target, Resolve(Target),
               track.via /\ editor = "none", FALSE)

\* Every successful toggle writes one and the same Mode, the opposite of the
\* current state it resolved, to cache and store; no entry is ever anything
\* but a Mode.
WritesAreWhole ==
    /\ \A r \in InFlight :
        Succeeds(r) =>
            /\ viewStates'[r.docUri] = Opposite(r.currentState)
            /\ globalState'[r.docUri] = Opposite(r.currentState)
    /\ \A id \in Ids : viewStates'[id] \in MaybeMode /\ globalState'[id] \in MaybeMode

\* C10 as claimed: a second toggle called on the identity of a toggle that
\* is still awaiting its host action observes the mode m the first one
\* resolved and starts the same host action; every successful toggle writes
\* the opposite of the mode it resolved, whole, to cache and store.
ReentrantToggleSeesSameMode ==
    [][ /\ \A r \in InFlight :
            (SecondToggleDuring(r) /\ r.currentState \in Modes) =>
                /\ inv' = inv (+) SetToBag({Started})
                /\ Started.currentState = r.currentState
                /\ Started.pc = FirstAwait(r.currentState)
        /\ WritesAreWhole
      ]_vars

\* C10 as amended: the second toggle observes m and starts the same host
\* action provided the identity has a cache or store entry or the
\* Configured Default still reads m at the second call (the default is read
\* afresh by every call); every successful toggle writes the opposite of the
\* mode it resolved, whole, to cache and store, so two toggles that both
\* resolved m leave the opposite of m.
ReentrantToggleSeesSameModeUnlessDefaultChanged ==
    [][ /\ \A r \in InFlight :
            (/\ SecondToggleDuring(r)
             /\ r.currentState \in Modes
             /\ (HasEntry(Target) \/ defaultView = r.currentState)) =>
                /\ inv' = inv (+) SetToBag({Started})
                /\ Started.currentState = r.currentState
                /\ Started.pc = FirstAwait(r.currentState)
        /\ WritesAreWhole
      ]_vars

\* Two toggles of one identity that has an entry are awaiting the same host
\* action, having resolved the same mode, and neither has been overtaken by
\* a write.
ReentrantToggleWitness ==
    \E r \in InFlight :
        /\ track.dirty
        /\ inv[r] = 2
        /\ ~r.dirty
        /\ r.pc = "showPreview"
        /\ viewStates[r.docUri] = "source"

\* C11: when cleanup() examines the durable entry of a filesystem-backed
\* identity and the probe reports it absent, the durable entry and the cache
\* entry of that identity are deleted and the count grows by one; when the
\* probe reports it present, cache and store are left as they are and the
\* count is unchanged; no entry of another identity, file or not, is touched
\* by the examination. The run ends when the last listed key has been
\* examined, and the count it returns is the number of the listed keys whose
\* entries it deleted, each of them a file that a probe reported absent. So
\* a run over the entries of an existing file, a deleted file and an unsaved
\* document returns 1 and deletes the entry of the deleted file only.
ReconcilerRemovesAbsentFiles ==
    [][ \A id \in Keys :
            /\ (Scheme(id) = "file" /\ cleanupExamines(id, FALSE)) =>
                    /\ globalState'[id] = "none"
                    /\ id \in Ids => viewStates'[id] = "none" /\ getViewState(id)' = "none"
                    /\ reconciler'.removed = reconciler.removed + 1
                    /\ reconciler'.deleted = reconciler.deleted \cup {id}
            /\ cleanupExamines(id, TRUE) =>
                    /\ UNCHANGED <<viewStates, globalState>>
                    /\ reconciler'.removed = reconciler.removed
                    /\ reconciler'.deleted = reconciler.deleted
            /\ \A exists \in BOOLEAN :
                    cleanupExamines(id, exists) =>
                        /\ \A other \in Ids \ {id} :
                                viewStates'[other] = viewStates[other]
                        /\ \A other \in Keys \ {id} :
                                globalState'[other] = globalState[other]
                        /\ reconciler'.running = (reconciler.pending # {id})
                        /\ reconciler'.listed = reconciler.listed
                        /\ reconciler'.deleted \subseteq reconciler.listed
                        /\ reconciler'.removed = Cardinality(reconciler'.deleted)
                        /\ \A k \in reconciler'.deleted : Scheme(k) = "file"
      ]_vars

\* A run over the entries of the file "c", which is still there, of the file
\* "a", which is gone, and of the unsaved document "b" has returned 1: the
\* entry of "a" has been deleted from store and cache and the two others
\* are still stored.
ReconcilerRemovesAbsentFilesWitness ==
    /\ extCtx
    /\ ~reconciler.running
    /\ reconciler.listed = {"a", "b", "c"}
    /\ reconciler.deleted = {"a"}
    /\ reconciler.removed = 1
    /\ globalState["a"] = "none"
    /\ viewStates["a"] = "none"
    /\ globalState["b"] # "none"
    /\ viewStates["b"] # "none"
    /\ globalState["c"] # "none"

\* A step of cleanup(): the listing of the keys or the examination of one.
ReconcilerStep ==
    \/ cleanupCalled
    \/ \E id \in Keys, exists \in BOOLEAN : cleanupExamines(id, exists)

\* C12: a step of cleanup() leaves the durable entry and the cache entry of
\* an identity that is not filesystem-backed as they are and counts nothing
\* for it, whatever the probe would answer; and no step at all turns the
\* durable entry of such an identity into an absent one.
ReconcilerSparesUnsaved ==
    [][ \A id \in Ids :
            Scheme(id) # "file" =>
                /\ ReconcilerStep =>
                        /\ globalState'[id] = globalState[id]
                        /\ viewStates'[id] = viewStates[id]
                /\ \A exists \in BOOLEAN :
                        cleanupExamines(id, exists) =>
                            reconciler'.removed = reconciler.removed
                /\ globalState[id] # "none" => globalState'[id] = globalState[id]
                                                \/ globalState'[id] = Opposite(globalState[id])
      ]_vars

\* After a reload, the run started by activate() has examined the entry of
\* the unsaved document, which is still stored, and has the file left to do.
ReconcilerSparesUnsavedWitness ==
    /\ reconciler.running
    /\ reconciler.pending = {"a"}
    /\ reconciler.removed = 0
    /\ lastToggledUri = "none"
    /\ globalState["b"] = "preview"

\* A step in which updateUI runs with the status bar item: activate() or the
\* focus listener.
PresentationSync == activate \/ onDidChangeActiveTextEditor

\* C13 as claimed: when Presentation Sync runs for a focused markdown
\* document the indicator is visible and its label names the current mode:
\* '$(code) Source' when the resolved mode is source, '$(eye) Preview' when
\* it is preview.
IndicatorNamesCurrentMode ==
    [][ PresentationSync =>
            \A e \in Ids :
                editor' = e =>
                    /\ statusBar'.visible
                    /\ Resolve(e)' = "source" => statusBar'.text = "$(code) Source"
                    /\ Resolve(e)' = "preview" => statusBar'.text = "$(eye) Preview"
      ]_vars

\* A toggle returns in this step: after its writes, or from its catch block.
ToggleReturns == \E r \in InFlight : Succeeds(r) \/ Fails(r)

\* C14 as claimed: when a toggle returns, successful or failed, and a
\* markdown document is focused, the indicator is the one updateUI derives
\* from the resolved mode that document has then.
ToggleReturnSyncsIndicator ==
    [][ ToggleReturns =>
            \A e \in Ids :
                editor' = e => statusBar' = Label(Resolve(e)')
      ]_vars

\* A step that overwrites the Last-Toggled Identity.
LastToggledWritten == lastToggledUri' # lastToggledUri

\* C15: the Last-Toggled Identity is unset when the process starts and
\* whenever the extension is not active (a reload does not restore it,
\* whatever the store holds); every successful toggle sets it to its target;
\* nothing else sets it, and only a reload clears it; so with no document
\* focused and none toggled since the start a toggle call gives the warning.
LastToggledIsLastSuccess ==
    /\ lastToggledUri = "none"
    /\ [][ /\ \A r \in InFlight : Succeeds(r) => lastToggledUri' = r.docUri
           /\ LastToggledWritten =>
                  \/ \E r \in InFlight : Succeeds(r) /\ lastToggledUri' = r.docUri
                  \/ restart /\ lastToggledUri' = "none"
           /\ restart => lastToggledUri' = "none"
           /\ ~extCtx => lastToggledUri = "none"
           /\ (ToggleCalled /\ editor = "none" /\ lastToggledUri = "none") =>
                  notice' = "warning" /\ inv' = inv
         ]_vars

\* After a reload the store holds an entry, nothing is last toggled, and a
\* toggle called with no document focused has given the warning.
LastToggledIsLastSuccessWitness ==
    /\ extCtx
    /\ lastToggledUri = "none"
    /\ editor = "none"
    /\ globalState["a"] = "preview"
    /\ viewStates["a"] = "none"
    /\ notice = "warning"
    /\ inv = EmptyBag

\* C16: a toggle call starts the host action its resolved current state
\* selects, for its target: show-preview from source, show-source (open,
\* then show) otherwise; an invocation awaiting show-preview never moves on
\* to show-source nor the reverse; one that succeeds records preview after
\* show-preview and source after show-source, never the state it started from.
HostActionFollowsCurrentMode ==
    /\ [](\A r \in InFlight : r.pc = "showPreview" <=> r.currentState = "source")
    /\ [][ /\ (ToggleCalled /\ Target # "none") =>
                  \E r \in Invocations :
                      /\ inv' = inv (+) SetToBag({r})
                      /\ r.docUri = Target
                      /\ r.currentState = Resolve(Target)
                      /\ Resolve(Target) = "source" => r.pc = "showPreview"
                      /\ Resolve(Target) = "preview" => r.pc = "openTextDocument"
           /\ \A r \in InFlight :
                  /\ showPreviewResolved(r) =>
                        /\ viewStates'[r.docUri] = "preview"
                        /\ globalState'[r.docUri] = "preview"
                        /\ r.currentState = "source"
                  /\ showTextDocumentResolved(r) =>
                        /\ viewStates'[r.docUri] = "source"
                        /\ globalState'[r.docUri] = "source"
                        /\ r.currentState # "source"
                  /\ Succeeds(r) => viewStates'[r.docUri] # r.currentState
                  /\ openTextDocumentResolved(r) =>
                        \A x \in BagToSet(inv') :
                            x.pc = "showPreview" => x \in InFlight
         ]_vars

\* One toggle is showing the preview of a document resolved as source while
\* another is showing the source of a document resolved as preview.
HostActionFollowsCurrentModeWitness ==
    \E r, q \in InFlight :
        /\ r.pc = "showPreview" /\ r.currentState = "source"
        /\ q.pc = "showTextDocument" /\ q.currentState = "preview"
        /\ viewStates[q.docUri] = "preview"
        /\ r.docUri # q.docUri

\* Cache and store are written, and the Last-Toggled Identity set, only in
\* the step in which a host action has resolved for the last await of an
\* invocation (a reload empties the cache); that step writes all three and
\* the invocation returns in it, never suspending again.
WritesFollowHostAction ==
    /\ (viewStates' # viewStates \/ globalState' # globalState \/ LastToggledWritten) =>
            restart \/ \E r \in InFlight : Succeeds(r)
    /\ \A r \in InFlight :
            Succeeds(r) =>
                /\ viewStates'[r.docUri] = Opposite(r.currentState)
                /\ globalState'[r.docUri] = viewStates'[r.docUri]
                /\ lastToggledUri' = r.docUri
                /\ BagCardinality(inv') = BagCardinality(inv) - 1

\* C17 as claimed: the writes of a toggle follow its host action in one
\* step, and while a toggle is awaiting its host action the resolved mode of
\* its target is the current state it resolved when it was called.
AwaitingToggleKeepsMode ==
    /\ [](\A r \in InFlight : Resolve(r.docUri) = r.currentState)
    /\ [][WritesFollowHostAction]_vars

\* C17 as amended: the writes of a toggle follow its host action in one
\* step, and while a toggle is awaiting its host action the resolved mode of
\* its target is the current state it resolved when it was called, unless
\* another toggle of that identity has succeeded since, or the identity has
\* no entry and the Configured Default has been changed since.
AwaitingToggleKeepsModeUnlessOvertaken ==
    /\ [](\A r \in InFlight :
            (track.dirty /\ ~r.dirty) =>
                /\ HasEntry(r.docUri) => /\ Resolve(r.docUri) = r.currentState
                                         /\ getViewState(r.docUri) = r.currentState
                /\ ~HasEntry(r.docUri) => Resolve(r.docUri) = defaultView)
    /\ [][WritesFollowHostAction]_vars

\* A toggle of a document left in preview is awaiting show-source: the
\* entries still say preview and another document is the last toggled one.
AwaitingToggleKeepsModeWitness ==
    \E r \in InFlight :
        /\ track.dirty
        /\ ~r.dirty
        /\ r.pc = "showTextDocument"
        /\ r.currentState = "preview"
        /\ viewStates[r.docUri] = "preview"
        /\ globalState[r.docUri] = "preview"
        /\ lastToggledUri \notin {"none", r.docUri}

\* C18: while the extension is active the resolved mode of an identity is
\* its cache entry if there is one, else its store entry if there is one,
\* else the Configured Default as it reads now; a change of the Configured
\* Default leaves the resolved mode of every identity with a cache or store
\* entry as it was and moves that of every other identity to the new value.
ResolutionPrecedence ==
    /\ [](extCtx =>
            \A id \in Ids :
                /\ viewStates[id] # "none" => Resolve(id) = viewStates[id]
                /\ (viewStates[id] = "none" /\ globalState[id] # "none") =>
                        Resolve(id) = globalState[id]
                /\ (viewStates[id] = "none" /\ globalState[id] = "none") =>
                        Resolve(id) = defaultView)
    /\ [][ (extCtx /\ changeConfiguration) =>
                \A id \in Ids :
                    /\ HasEntry(id) => Resolve(id)' = Resolve(id)
                    /\ ~HasEntry(id) => /\ Resolve(id)' = defaultView'
                                        /\ Resolve(id)' # Resolve(id)
         ]_vars

\* After a reload one document resolves from the store against the default
\* and the other, without entries, resolves to the default.
ResolutionPrecedenceWitness ==
    /\ extCtx
    /\ defaultView = "source"
    /\ viewStates["a"] = "none" /\ globalState["a"] = "preview"
    /\ Resolve("a") = "preview"
    /\ ~HasEntry("b") /\ Resolve("b") = "source"
    /\ inv = EmptyBag

\* C19: a toggle call made while a document that is not markdown is focused
\* has no target, whatever the Last-Toggled Identity is: it shows the
\* warning, starts no host action and leaves cache, store and Last-Toggled
\* Identity unchanged.
NonMarkdownFocusHasNoTarget ==
    /\ [](editor \in OtherDocs => Target = "none")
    /\ [][ (ToggleCalled /\ editor \in OtherDocs) =>
                /\ notice' = "warning"
                /\ inv' = inv
                /\ UNCHANGED <<viewStates, globalState, lastToggledUri, statusBar>>
         ]_vars

\* The warning is on screen with a non-markdown document focused and a
\* Last-Toggled Identity present.
NonMarkdownFocusHasNoTargetWitness ==
    /\ extCtx
    /\ editor \in OtherDocs
    /\ lastToggledUri # "none"
    /\ notice = "warning"
    /\ inv = EmptyBag

\* An invocation takes a step: it moves to its next await or returns.
Resumes(r) == Succeeds(r) \/ Fails(r) \/ openTextDocumentResolved(r)

\* C20: a toggle call writes no entry, and every later step of a toggle,
\* successful or failed, leaves the cache entry and the store entry of
\* every identity other than its target unchanged.
OtherIdentitiesUntouched ==
    [][ /\ ToggleCalled => UNCHANGED <<viewStates, globalState>>
        /\ \A r \in InFlight :
              Resumes(r) =>
                  \A id \in Ids \ {r.docUri} :
                      /\ viewStates'[id] = viewStates[id]
                      /\ globalState'[id] = globalState[id]
                      /\ getViewState(id)' = getViewState(id)
      ]_vars

\* One document was left in preview while the other, the last toggled one,
\* has gone to preview and back to source.
OtherIdentitiesUntouchedWitness ==
    /\ viewStates["a"] = "preview" /\ globalState["a"] = "preview"
    /\ viewStates["b"] = "source" /\ globalState["b"] = "source"
    /\ lastToggledUri = "b"
    /\ inv = EmptyBag

\* C21: an identity that has a cache entry keeps one in every step but a
\* reload (which ends the process) and the Reconciler's deletion; an identity
\* that has a store entry keeps one in every step but the Reconciler's
\* deletion; so no step of a toggle, successful or failed, removes an entry.
TogglingKeepsEntries ==
    [][ \A id \in Ids :
            /\ (viewStates[id] # "none" /\ viewStates'[id] = "none") =>
                    restart \/ cleanupExamines(id, FALSE)
            /\ (globalState[id] # "none" /\ globalState'[id] = "none") =>
                    cleanupExamines(id, FALSE)
            /\ (ToggleCalled \/ \E r \in InFlight : Resumes(r)) =>
                    /\ viewStates[id] # "none" => viewStates'[id] # "none"
                    /\ globalState[id] # "none" => globalState'[id] # "none"
      ]_vars

\* With default source, a document has been toggled to preview and back to
\* source, a toggle has failed, and its entries are in cache and store.
TogglingKeepsEntriesWitness ==
    /\ extCtx
    /\ defaultView = "source"
    /\ viewStates["b"] = "source"
    /\ globalState["b"] = "source"
    /\ notice = "error"
    /\ inv = EmptyBag

\* C22: every cache entry and every store entry is source or preview (the
\* absent entry apart), whatever the Configured Default reads; a toggle that
\* resolved a default that is neither writes source, and no toggle call
\* writes what it resolved.
EntriesAreModes ==
    /\ [](\A id \in Ids :
            /\ viewStates[id] \in Modes \cup {"none"}
            /\ globalState[id] \in Modes \cup {"none"})
    /\ [][ /\ ToggleCalled => UNCHANGED <<viewStates, globalState>>
           /\ \A r \in InFlight :
                (Succeeds(r) /\ r.currentState \notin Modes) =>
                    /\ viewStates'[r.docUri] = "source"
                    /\ globalState'[r.docUri] = "source"
         ]_vars

\* The default is neither source nor preview; a toggle that resolved it has
\* written source for its document, and the other document has no entry.
EntriesAreModesWitness ==
    /\ defaultView = "other"
    /\ lastToggledUri = "a"
    /\ viewStates["a"] = "source"
    /\ globalState["a"] = "source"
    /\ ~HasEntry("b")
    /\ inv = EmptyBag

\* Invocation r resumes after its last await resolved and the durable write
\* of its storeState is rejected.
WriteRejected(r) ==
    \/ showPreviewResolvedWriteRejected(r)
    \/ showTextDocumentResolvedWriteRejected(r)

\* The cache holds a mode for id that the store does not hold.
Disagree(id) == viewStates[id] # "none" /\ globalState[id] # viewStates[id]

\* C23: when the durable write of an otherwise successful toggle is
\* rejected, the cache holds the new mode, the Last-Toggled Identity is the
\* target, the message on screen is what it was, and resolution and the
\* view-state query return the cache entry; a cache entry changes only when
\* a toggle of that identity succeeds (or the process ends), and while the
\* extension is active the resolved mode of an identity with a cache entry
\* is that entry, whatever the store holds.
DurableFailureKeepsCache ==
    [][ /\ \A r \in InFlight :
              WriteRejected(r) =>
                  /\ viewStates'[r.docUri] =
                         (IF r.pc = "showPreview" THEN "preview" ELSE "source")
                  /\ lastToggledUri' = r.docUri
                  /\ notice' = notice
                  /\ Resolve(r.docUri)' = viewStates'[r.docUri]
                  /\ getViewState(r.docUri)' = viewStates'[r.docUri]
        /\ \A id \in Ids :
              /\ (viewStates[id] # "none" /\ viewStates'[id] # viewStates[id]) =>
                     \/ restart
                     \/ \E r \in InFlight :
                            r.docUri = id /\ (Succeeds(r) \/ WriteRejected(r))
              /\ (extCtx /\ viewStates[id] # "none") =>
                     /\ Resolve(id) = viewStates[id]
                     /\ getViewState(id) = viewStates[id]
      ]_vars

\* The first toggle of a document has shown its preview and its durable
\* write was rejected: the cache says preview, the store has no entry, the
\* document is the last toggled one and no message is on screen.
DurableFailureKeepsCacheWitness ==
    /\ extCtx
    /\ viewStates["a"] = "preview"
    /\ globalState["a"] = "none"
    /\ lastToggledUri = "a"
    /\ notice = "none"
    /\ inv = EmptyBag

\* C24 as claimed: whenever the cache holds a mode for an identity that the
\* store does not hold (a durable write was rejected), the store eventually
\* holds the cache entry, whether or not a toggle is called again.
DurableWriteIsRetried ==
    \A id \in Ids :
        Disagree(id) ~> (viewStates[id] # "none" /\ globalState[id] = viewStates[id])

\* The toggle of invocation r succeeds with its durable write rejected, and
\* the mode it puts in the cache is the one the store has kept for id.
RejectedWriteCoincides(r, id) ==
    /\ r.docUri = id
    /\ WriteRejected(r)
    /\ globalState'[id] = globalState[id]
    /\ viewStates'[id] = globalState[id]

\* C24 as amended: a rejected durable write is not retried. The store entry
\* of an identity changes only in the step in which a toggle of that
\* identity succeeds and its durable write is accepted, and it then equals
\* the cache entry. A cache entry that the store does not hold stops
\* differing from the store only in such a step, or in the step of a toggle
\* of that identity whose durable write is rejected too and which puts in
\* the cache the very mode the store has kept, or when a reload empties the
\* cache. A reload keeps the store as it is, and at the next activation the
\* resolved mode of every identity is its store entry, stale or not, or the
\* Configured Default where the store has none.
DurableWriteIsNotRetried ==
    [][ \A id \in Ids :
            /\ globalState'[id] # globalState[id] =>
                    /\ \E r \in InFlight : r.docUri = id /\ Succeeds(r)
                    /\ globalState'[id] = viewStates'[id]
            /\ (Disagree(id) /\ ~Disagree(id)') =>
                    \/ restart /\ viewStates'[id] = "none"
                    \/ \E r \in InFlight :
                           /\ r.docUri = id
                           /\ Succeeds(r)
                           /\ globalState'[id] = viewStates'[id]
                    \/ \E r \in InFlight : RejectedWriteCoincides(r, id)
            /\ restart =>
                    /\ viewStates'[id] = "none"
                    /\ globalState'[id] = globalState[id]
            /\ activate =>
                    /\ Resolve(id)' = OrElse(globalState[id], defaultView)
                    /\ getViewState(id)' = globalState[id]
      ]_vars

\* The store has kept preview for a document whose toggle back to source
\* had its durable write rejected; a later toggle of the other document has
\* been stored, and the store still holds the stale mode of the first.
DurableWriteIsNotRetriedWitness ==
    /\ extCtx
    /\ viewStates["a"] = "source"
    /\ globalState["a"] = "preview"
    /\ viewStates["b"] = "preview"
    /\ globalState["b"] = "preview"
    /\ lastToggledUri = "b"
    /\ inv = EmptyBag

\* C25 as claimed: a toggle called with no document focused while a toggle
\* of identity X is awaiting its host action targets the Last-Toggled
\* Identity as the toggle in flight found it when it was called (it has no
\* target when there was none), and so targets X only if X was the
\* Last-Toggled Identity then.
NoFocusToggleSeesEarlierLast ==
    [][ \A r \in InFlight :
            (track.last /\ ToggleCalled /\ editor = "none") =>
                /\ Target = r.last
                /\ Target = r.docUri => r.last = r.docUri
      ]_vars

\* C25 as amended: a toggle called with no document focused while toggles
\* are awaiting their host actions targets the Last-Toggled Identity as it
\* is at the call (another toggle may have succeeded since the one in flight
\* was called), or gives the warning when there is none; no call, no await and no
\* failure of a toggle sets the Last-Toggled Identity, so it is the target
\* of a toggle that has succeeded (its cache entry is there), and the call
\* targets the identity X of a toggle in flight only when X is the
\* Last-Toggled Identity by such an earlier success.
NoFocusToggleIgnoresInFlight ==
    /\ [](lastToggledUri # "none" => viewStates[lastToggledUri] # "none")
    /\ [][ /\ (ToggleCalled /\ editor = "none" /\ InFlight # {}) =>
                /\ lastToggledUri = "none" => (notice' = "warning" /\ inv' = inv)
                /\ lastToggledUri # "none" =>
                       /\ inv' = inv (+) SetToBag({Started})
                       /\ Started.docUri = lastToggledUri
                       /\ Started.viaLast = track.via
                /\ \A r \in InFlight :
                       Target = r.docUri =>
                           /\ lastToggledUri = r.docUri
                           /\ viewStates[r.docUri] # "none"
           /\ ToggleCalled => lastToggledUri' = lastToggledUri
           /\ \A r \in InFlight :
                (openTextDocumentResolved(r) \/ Fails(r)) =>
                    lastToggledUri' = lastToggledUri
         ]_vars

\* The first toggle of document a, called with a focused, is awaiting its
\* host action, and a toggle called after the focus was lost is under way
\* on b, the last toggled document.
NoFocusToggleIgnoresInFlightWitness ==
    \E r, q \in InFlight :
        /\ r.docUri = "a" /\ ~r.viaLast /\ ~HasEntry("a")
        /\ q.docUri = "b" /\ q.viaLast
        /\ lastToggledUri = "b"
        /\ editor = "none"

====
